---- MODULE Spec2Model ----
(***************************************************************************)
(* hotel-point-app: the booking point-cost calculation and reservation     *)
(* consistency engine (internal/services/booking_service.go and the        *)
(* repositories it calls), as a state machine over the persistent store.   *)
(*                                                                         *)
(* Time is counted in hours since 00:00 of calendar day 0 of the modelled  *)
(* window, so 24*d is midnight of day d.  Every handler is a function from *)
(* the store, the clock and its arguments to the error it returns and the  *)
(* store it leaves (XxxOut); the action of the handler applies it.  In     *)
(* Spec requests are served one at a time and no persistence call fails.   *)
(***************************************************************************)
EXTENDS Integers, Sequences, FiniteSets, Bags, TLC

\* ------------------------------------------------------------- bounds
\* Calendar days a request may name: 0..MaxDay, and one far day for a long stay.
MaxDay == 1
\* Bookings ever inserted (ObjectIDs are never reused).
MaxBookings == 2
\* The clock runs to the end of this day.
MaxClockDay == 0
\* Weekday of day 0, as Go's time.Weekday (0 = Sunday .. 6 = Saturday).
Day0Weekday == 4
\* Ledger entries ever appended (the log is append-only).
MaxTx == 5
\* Date rules ever created by SetSpecialDate.
MaxRules == 2
\* Rows the collection room_availability may hold.
MaxAvailRows == 3

FarDay == MaxDay + 13
Days == (0..MaxDay) \cup {FarDay}

\* ------------------------------------------------------------- program constants
InitialPoints == 24
AdminPoints == 100
RegularCost == 1
WeekendCost == 2
HolidayCost == 3
CheckInHour == 14
CheckOutHour == 12
CancelWindowHours == 24
Saturday == 6
Sunday == 0

RoleAdmin == "admin"

UserIds == {"admin", "u1"}
Hotels == {"h1", "h2"}
Rooms == {"r1", "r2"}
\* Room.HotelID of the seeded catalogue.
RoomHotel == [r \in Rooms |-> IF r = "r1" THEN "h1" ELSE "h2"]
Statuses == {"pending", "confirmed", "completed", "cancelled"}
\* What a caller may pass as a status: the four values and one that is none of them.
StatusInputs == Statuses \cup {"archived"}
DBError == "persistence error"

VARIABLES
    now,              \* the wall clock, hours
    users,            \* collection users: id -> [pointBalance, role]
    bookings,         \* collection bookings: set of rows
    nextId,           \* the next fresh booking id
    transactions,     \* collection point_transactions: a bag of rows
    dateRules,        \* collection date_rules: set of rows
    roomAvailability, \* collection room_availability: set of rows
    nextRuleId,       \* the next fresh date rule id
    calls             \* CreateBooking calls in progress: process -> its locals

vars == <<now, users, bookings, nextId, transactions, dateRules, roomAvailability,
          nextRuleId, calls>>

\* The store as one value, as the handlers read and write it.
Store ==
    [users |-> users, bookings |-> bookings, nextId |-> nextId,
     transactions |-> transactions, dateRules |-> dateRules,
     roomAvailability |-> roomAvailability, nextRuleId |-> nextRuleId]

\* ------------------------------------------------------------- time
\* time.Date(t.Year(), t.Month(), t.Day(), h, 0, 0, 0, loc)
AtHour(t, h) == 24 * (t \div 24) + h
Midnight(t) == AtHour(t, 0)
\* t.AddDate(0, 0, n)
AddDays(t, n) == t + 24 * n
Weekday(t) == ((t \div 24) + Day0Weekday) % 7
\* Instants the clock is read at: the comparisons of the handlers change outcome
\* only at midnight (past guard) and at the check-in hour (cancel window).
ClockHours == {0, CheckInHour, CheckInHour + 1}
Instants == {24 * d + h : d \in 0..MaxClockDay, h \in ClockHours}

\* ------------------------------------------------------------- calls in progress
\* The goroutines serving requests at the same time.
Procs == {"p1", "p2"}
\* No call in progress.
Idle ==
    [pc |-> "idle", user |-> "", hotel |-> "", room |-> "", checkIn |-> 0, checkOut |-> 0,
     balance |-> 0, cost |-> 0, id |-> 0]

\* ------------------------------------------------------------- seed
\* seedHolidays: national holidays of cost 3; one of them falls into the window.
SeedHolidays ==
    {[id |-> 0, date |-> 24 * 0, type |-> "holiday", pointCost |-> HolidayCost,
      name |-> "holiday"]}
\* ensureAdminUser: an admin with 100 points, inserted without a ledger entry.
SeedUsers == [u \in {"admin"} |-> [pointBalance |-> AdminPoints, role |-> RoleAdmin]]

Init ==
    /\ now = 0
    /\ users = SeedUsers
    /\ bookings = {}
    /\ nextId = 1
    /\ transactions = EmptyBag
    /\ dateRules = SeedHolidays
    /\ roomAvailability = {}
    /\ nextRuleId = 1
    /\ calls = [p \in Procs |-> Idle]

\* ------------------------------------------------------------- repositories
\* An increment that stops at zero.
UpdatePointBalance_Clamped(us, userID, points) ==
    [u \in DOMAIN us |->
        IF u = userID
        THEN [us[u] EXCEPT !.pointBalance = IF @ + points < 0 THEN 0 ELSE @ + points]
        ELSE us[u]]

\* An increment whose filter matches every user.
UpdatePointBalance_Everyone(us, userID, points) ==
    [u \in DOMAIN us |-> [us[u] EXCEPT !.pointBalance = @ + points]]

\* userRepository.UpdatePointBalance: $inc on one document.
UpdatePointBalance(us, userID, points) ==
    [u \in DOMAIN us |->
        IF u = userID THEN [us[u] EXCEPT !.pointBalance = @ + points] ELSE us[u]]

\* userRepository.CreatePointTransaction: append one row.
CreatePointTransaction(txs, userID, amount, type, ref) ==
    txs (+) SetToBag({[user |-> userID, amount |-> amount, type |-> type, ref |-> ref]})

\* A status write that never lands.
UpdateStatus_Lost(bs, id, status) == {b : b \in bs}

\* An insert that the store refuses when the room is taken.
Create_IfFree(bs, booking) ==
    IF \E b \in bs : /\ b.room = booking.room /\ b.status # "cancelled"
                     /\ b.checkIn < booking.checkOut /\ b.checkOut > booking.checkIn
    THEN bs
    ELSE bs \cup {booking}

\* bookingRepository.Create: InsertOne.
Create(bs, booking) == bs \cup {booking}

\* A status write whose filter matches every row.
UpdateStatus_All(bs, id, status) == {[b EXCEPT !.status = status] : b \in bs}

\* bookingRepository.UpdateStatus: $set status on the row with that id.
UpdateStatus(bs, id, status) ==
    {IF b.id = id THEN [b EXCEPT !.status = status] ELSE b : b \in bs}

\* A soft delete: the row stays, marked cancelled.
DeleteRow_Soft(bs, id) == {IF b.id = id THEN [b EXCEPT !.status = "cancelled"] ELSE b : b \in bs}

\* bookingRepository.Delete
DeleteRow(bs, id) == {b \in bs : b.id # id}

Exists(bs, id) == \E b \in bs : b.id = id
\* bookingRepository.FindByID
FindByID(bs, id) == CHOOSE b \in bs : b.id = id

\* An availability query that, like FindActiveByUserID, also skips completed rows.
CheckRoomAvailability_ActiveOnly(bs, roomID, checkIn, checkOut) ==
    Cardinality({b \in bs :
        /\ b.room = roomID
        /\ b.status \notin {"cancelled", "completed"}
        /\ b.checkIn < checkOut
        /\ b.checkOut > checkIn}) = 0

\* bookingRepository.CheckRoomAvailability: no row of the room, not cancelled,
\* with check_in < checkOut and check_out > checkIn.
CheckRoomAvailability(bs, roomID, checkIn, checkOut) ==
    Cardinality({b \in bs :
        /\ b.room = roomID
        /\ b.status # "cancelled"
        /\ b.checkIn < checkOut
        /\ b.checkOut > checkIn}) = 0

\* dateRepository.FindDateRules: the rules dated from 00:00 of startDate to
\* 23:59:59 of endDate.
FindDateRules(rules, startDate, endDate) ==
    {r \in rules : r.date >= Midnight(startDate) /\ r.date < Midnight(endDate) + 24}

\* dateRepository.UpdateDateRule: $set type, point_cost, name on the row with
\* the rule's id.
UpdateDateRule(rules, rule) ==
    {IF r.id = rule.id
     THEN [r EXCEPT !.type = rule.type, !.pointCost = rule.pointCost, !.name = rule.name]
     ELSE r : r \in rules}

\* dateRepository.DeleteDateRule
DeleteDateRule(rules, id) == {r \in rules : r.id # id}

\* A lookup that lets the weekday decide before the stored rule.
GetPointCostForDate_WeekendFirst(rules, date) ==
    LET found == {r \in rules : r.date >= AtHour(date, 0) /\ r.date < AtHour(date, 24)}
    IN  IF Weekday(date) = Saturday \/ Weekday(date) = Sunday THEN WeekendCost
        ELSE IF found # {} THEN (CHOOSE r \in found : TRUE).pointCost
        ELSE RegularCost

\* dateRepository.GetPointCostForDate: the rule stored within the day, else the
\* weekday default.
GetPointCostForDate(rules, date) ==
    LET found == {r \in rules : r.date >= AtHour(date, 0) /\ r.date < AtHour(date, 24)}
    IN  IF found # {} THEN (CHOOSE r \in found : TRUE).pointCost
        ELSE IF Weekday(date) = Saturday \/ Weekday(date) = Sunday THEN WeekendCost
        ELSE RegularCost

\* A loop that also counts the check-out day.
RECURSIVE SumPointCost_Inclusive(_, _, _)
SumPointCost_Inclusive(rules, d, endDate) ==
    IF d <= endDate
    THEN GetPointCostForDate(rules, d) + SumPointCost_Inclusive(rules, AddDays(d, 1), endDate)
    ELSE 0

\* The loop of CalculatePointCost: for d := startDate; d.Before(endDate); d += 1 day.
RECURSIVE SumPointCost(_, _, _)
SumPointCost(rules, d, endDate) ==
    IF d < endDate
    THEN GetPointCostForDate(rules, d) + SumPointCost(rules, AddDays(d, 1), endDate)
    ELSE 0

\* ------------------------------------------------------------- booking service
\* A handler's outcome: the error it returns ("nil" = none) and the store it leaves.
Ret(e, st) == [err |-> e, st |-> st]

\* bookingService.CalculatePointCost at clock t: [err, cost].
CalculatePointCost(st, t, roomID, checkIn, checkOut) ==
    LET startDate == Midnight(checkIn)
        endDate == Midnight(checkOut)
    IN  IF startDate > endDate
        THEN [err |-> "check-in date cannot be after check-out date", cost |-> 0]
        ELSE IF startDate < AddDays(t, -1)
        THEN [err |-> "check-in date cannot be in the past", cost |-> 0]
        ELSE IF roomID \notin Rooms
        THEN [err |-> "room not found", cost |-> 0]
        ELSE IF ~CheckRoomAvailability(st.bookings, roomID, startDate, endDate)
        THEN [err |-> "room is not available for the selected dates", cost |-> 0]
        ELSE [err |-> "nil", cost |-> SumPointCost(st.dateRules, startDate, endDate)]

\* A balance check against the yearly grant instead of the current balance.
HasEnoughPoints_GrantBased(balance, cost) == ~(InitialPoints < cost)

\* The per-day entry of CalculatePointCostWithDetails for day d, given the rules
\* of the range: the rule keyed by d's date (the last one of the date-sorted
\* result when several share the key), else the weekday default.
DayDetail(found, d) ==
    LET keyed == {r \in found : Midnight(r.date) = Midnight(d)}
        rule == CHOOSE r \in keyed : \A o \in keyed : o.date <= r.date
    IN  IF keyed # {}
        THEN [date |-> d, dayType |-> rule.type, pointCost |-> rule.pointCost,
              name |-> rule.name]
        ELSE IF Weekday(d) = Saturday \/ Weekday(d) = Sunday
        THEN [date |-> d, dayType |-> "weekend", pointCost |-> WeekendCost, name |-> ""]
        ELSE [date |-> d, dayType |-> "regular", pointCost |-> RegularCost, name |-> ""]

\* The loop of CalculatePointCostWithDetails: one entry per day, in order.
RECURSIVE DailyDetails(_, _, _)
DailyDetails(found, d, endDate) ==
    IF d < endDate
    THEN <<DayDetail(found, d)>> \o DailyDetails(found, AddDays(d, 1), endDate)
    ELSE <<>>

RECURSIVE SumDetails(_)
SumDetails(details) ==
    IF details = <<>> THEN 0 ELSE Head(details).pointCost + SumDetails(Tail(details))

\* bookingService.CalculatePointCostWithDetails at clock t: [err, cost, details].
CalculatePointCostWithDetails(st, t, roomID, checkIn, checkOut) ==
    LET startDate == Midnight(checkIn)
        endDate == Midnight(checkOut)
        details == DailyDetails(FindDateRules(st.dateRules, startDate, endDate),
                                startDate, endDate)
        Fail(e) == [err |-> e, cost |-> 0, details |-> <<>>]
    IN  IF startDate > endDate
        THEN Fail("check-in date cannot be after check-out date")
        ELSE IF startDate < AddDays(t, -1)
        THEN Fail("check-in date cannot be in the past")
        ELSE IF roomID \notin Rooms
        THEN Fail("room not found")
        ELSE IF ~CheckRoomAvailability(st.bookings, roomID, startDate, endDate)
        THEN Fail("room is not available for the selected dates")
        ELSE [err |-> "nil", cost |-> SumDetails(details), details |-> details]

\* A debit that is not guarded by the balance.
HasEnoughPoints_Unchecked(balance, cost) == cost >= 0

\* The balance checks of CreateBooking and UpdateBookingStatus:
\* user.PointBalance < pointCost rejects.
HasEnoughPoints(balance, cost) == ~(balance < cost)

\* A window that also rejects at exactly 24 hours before check-in.
WithinCancelWindow_Inclusive(t, checkIn) == checkIn - t <= CancelWindowHours

\* CancelBooking's rule: time.Until(booking.CheckIn) < 24h rejects.
WithinCancelWindow(t, checkIn) == checkIn - t < CancelWindowHours

\* An authorization that lets every registered user cancel.
MayCancel_AnyUser(us, booking, userID) ==
    \/ booking.user = userID
    \/ userID \in DOMAIN us

\* CancelBooking's authorization: the owner, or a user whose role is admin.
MayCancel(us, booking, userID) ==
    \/ booking.user = userID
    \/ userID \in DOMAIN us /\ us[userID].role = RoleAdmin

\* A cancellation that credits nothing.
CancelRefund_Nothing(booking) == booking.pointCost - booking.pointCost

\* What CancelBooking credits: booking.PointCost.
CancelRefund(booking) == booking.pointCost

\* A reactivation that only a move to confirmed counts as.
IsReactivation_ConfirmedOnly(old, new) == old = "cancelled" /\ new = "confirmed"

\* UpdateBookingStatus: leaving cancelled debits again, entering cancelled refunds.
IsReactivation(old, new) == old = "cancelled" /\ new # "cancelled"
IsRefund(old, new) == old # "cancelled" /\ new = "cancelled"

\* A delete that refunds whatever the status.
DeleteRefunds_Always(status) == status \in Statuses

\* DeleteBooking refunds unless the row is cancelled.
DeleteRefunds(status) == status # "cancelled"

\* authService.Register; the e-mail address is the identity u.
RegisterOut(st, u, f) ==
    IF u \in DOMAIN st.users
    THEN Ret("user with this email already exists", st)
    ELSE IF f = "insert"
    THEN Ret(DBError, st)
    ELSE LET created ==
                [st EXCEPT !.users = [x \in DOMAIN st.users \cup {u} |->
                    IF x = u THEN [pointBalance |-> InitialPoints, role |-> ""]
                    ELSE st.users[x]]]
         IN  IF f = "tx"
             THEN Ret(DBError, created)
             ELSE Ret("nil", [created EXCEPT !.transactions =
                        CreatePointTransaction(@, u, InitialPoints, "annual_grant", "initial")])

\* bookingService.CreateBooking
CreateBookingOut(st, t, userID, hotelID, roomID, checkIn, checkOut, f) ==
    LET startDate == AtHour(checkIn, CheckInHour)
        endDate == AtHour(checkOut, CheckOutHour)
        calc == CalculatePointCost(st, t, roomID, startDate, endDate)
        booking == [id |-> st.nextId, user |-> userID, hotel |-> hotelID, room |-> roomID,
                    checkIn |-> startDate, checkOut |-> endDate,
                    pointCost |-> calc.cost, status |-> "confirmed"]
        inserted == [st EXCEPT !.bookings = Create(@, booking), !.nextId = @ + 1]
        debited == [inserted EXCEPT !.users = UpdatePointBalance(@, userID, -calc.cost)]
    IN  IF userID \notin DOMAIN st.users
        THEN Ret("user not found", st)
        ELSE IF hotelID \notin Hotels
        THEN Ret("hotel not found", st)
        ELSE IF roomID \notin Rooms
        THEN Ret("room not found", st)
        ELSE IF RoomHotel[roomID] # hotelID
        THEN Ret("room does not belong to the specified hotel", st)
        ELSE IF calc.err # "nil"
        THEN Ret(calc.err, st)
        ELSE IF ~HasEnoughPoints(st.users[userID].pointBalance, calc.cost)
        THEN Ret("insufficient point balance", st)
        ELSE IF f = "insert"
        THEN Ret(DBError, st)
        ELSE IF f = "balance"
        THEN \* the debit failed: the row is set to cancelled, the error returned
             Ret(DBError, [inserted EXCEPT !.bookings = UpdateStatus(@, booking.id, "cancelled")])
        ELSE IF f = "balance+status"
        THEN \* the debit failed and so did the status write, whose error is dropped
             Ret(DBError, inserted)
        ELSE IF f = "tx"
        THEN Ret("nil", debited)
        ELSE Ret("nil", [debited EXCEPT !.transactions =
                CreatePointTransaction(@, userID, -calc.cost, "booking_deduction", booking.id)])

\* bookingService.CancelBooking
CancelBookingOut(st, t, id, userID, f) ==
    IF ~Exists(st.bookings, id)
    THEN Ret("booking not found", st)
    ELSE LET booking == FindByID(st.bookings, id)
             cancelled == [st EXCEPT !.bookings = UpdateStatus(@, id, "cancelled")]
             credited == [cancelled EXCEPT
                !.users = UpdatePointBalance(@, booking.user, CancelRefund(booking))]
         IN
        IF ~MayCancel(st.users, booking, userID)
        THEN Ret("unauthorized to cancel this booking", st)
        ELSE IF booking.status = "cancelled"
        THEN Ret("booking already cancelled", st)
        ELSE IF booking.status = "completed"
        THEN Ret("booking already completed", st)
        ELSE IF WithinCancelWindow(t, booking.checkIn)
        THEN Ret("cannot cancel booking within 24 hours of check-in", st)
        ELSE IF f = "status"
        THEN Ret(DBError, st)
        ELSE IF f = "balance"
        THEN Ret(DBError, cancelled)
        ELSE IF f = "tx"
        THEN Ret("nil", credited)
        ELSE Ret("nil", [credited EXCEPT !.transactions =
                CreatePointTransaction(@, booking.user, CancelRefund(booking),
                                       "booking_refund", id)])

\* bookingService.UpdateBookingStatus
UpdateBookingStatusOut(st, id, status, f) ==
    IF status \notin Statuses
    THEN Ret("invalid booking status", st)
    ELSE IF ~Exists(st.bookings, id)
    THEN Ret("booking not found", st)
    ELSE LET booking == FindByID(st.bookings, id)
             reactivate == IsReactivation(booking.status, status)
             refund == IsRefund(booking.status, status)
             ledger == reactivate \/ refund
             delta == IF reactivate THEN -booking.pointCost ELSE booking.pointCost
             moved == IF ledger
                      THEN [st EXCEPT !.users = UpdatePointBalance(@, booking.user, delta)]
                      ELSE st
             logged == IF ledger /\ f # "tx"
                       THEN [moved EXCEPT !.transactions =
                            CreatePointTransaction(@, booking.user, delta,
                                IF reactivate THEN "booking_reactivation" ELSE "booking_refund",
                                id)]
                       ELSE moved
         IN
        IF reactivate /\ booking.user \notin DOMAIN st.users
        THEN Ret("user not found", st)
        ELSE IF reactivate
                /\ ~HasEnoughPoints(st.users[booking.user].pointBalance, booking.pointCost)
        THEN Ret("insufficient point balance to reactivate booking", st)
        ELSE IF ledger /\ f = "balance"
        THEN Ret(DBError, st)
        ELSE IF f = "status"
        THEN Ret(DBError, logged)
        ELSE Ret("nil", [logged EXCEPT !.bookings = UpdateStatus(@, id, status)])

\* bookingService.DeleteBooking
DeleteBookingOut(st, id, f) ==
    IF ~Exists(st.bookings, id)
    THEN Ret("booking not found", st)
    ELSE LET booking == FindByID(st.bookings, id)
             refund == DeleteRefunds(booking.status)
             moved == IF refund
                      THEN [st EXCEPT !.users =
                                UpdatePointBalance(@, booking.user, booking.pointCost)]
                      ELSE st
             logged == IF refund /\ f # "tx"
                       THEN [moved EXCEPT !.transactions =
                            CreatePointTransaction(@, booking.user, booking.pointCost,
                                                   "booking_deletion_refund", id)]
                       ELSE moved
         IN
        IF refund /\ f = "balance"
        THEN Ret(DBError, st)
        ELSE IF f = "delete"
        THEN Ret(DBError, logged)
        ELSE Ret("nil", [logged EXCEPT !.bookings = DeleteRow(@, id)])

\* hotelRepository.FindRoomAvailabilityByDate: the rows of the room whose date
\* lies between 00:00 and 23:59:59 of the day.
FindRoomAvailabilityByDate(rows, roomID, date) ==
    {a \in rows : a.room = roomID /\ a.date >= Midnight(date) /\ a.date < Midnight(date) + 24}

\* What SetRoomAvailability is told about failing persistence calls: which
\* call fails ("lookup": FindRoomAvailabilityByDate, "write": the update or
\* insert) and for which day of the range; NoFailure when none does.
NoFailure == [call |-> "none", day |-> 0]

\* primitive.NewObjectID() for a row of room_availability (rows are never
\* removed by the operations modelled).
FreshAvailId(rows) ==
    IF rows = {} THEN 1 ELSE 1 + (CHOOSE i \in {a.id : a \in rows} : \A a \in rows : a.id <= i)

\* UpdateRoomAvailability: $set available, user_ids on the row with that id.
UpdateRoomAvailability(rows, id, available, userIDs) ==
    {IF a.id = id THEN [a EXCEPT !.available = available, !.userIDs = userIDs] ELSE a :
        a \in rows}

\* One pass of SetRoomAvailability's loop body: update the row found for the
\* day (err == nil && existing != nil), or else insert one, also when the
\* lookup returned an error.  FindOne returns the first match, here the row of
\* lowest id.
SetDay(rows, roomID, d, available, userIDs, lookupFailed) ==
    LET date == Midnight(d)
        found == IF lookupFailed THEN {}
                 ELSE FindRoomAvailabilityByDate(rows, roomID, date)
    IN  IF found # {}
        THEN LET existing == CHOOSE a \in found : \A o \in found : a.id <= o.id
             IN  UpdateRoomAvailability(rows, existing.id, available, userIDs)
        ELSE rows \cup {[id |-> FreshAvailId(rows), room |-> roomID, date |-> date,
                         available |-> available, userIDs |-> userIDs]}

\* The loop of SetRoomAvailability: for d := fromDate; !d.After(toDate); d += 1 day;
\* a failing write returns its error and leaves the days written before.
RECURSIVE SetDays(_, _, _, _, _, _, _)
SetDays(rows, roomID, d, toDate, available, userIDs, f) ==
    IF d > toDate
    THEN [err |-> "nil", rows |-> rows]
    ELSE IF f.call = "write" /\ f.day = Midnight(d)
    THEN [err |-> DBError, rows |-> rows]
    ELSE SetDays(SetDay(rows, roomID, d, available, userIDs,
                        f.call = "lookup" /\ f.day = Midnight(d)),
                 roomID, AddDays(d, 1), toDate, available, userIDs, f)

\* hotelService.SetRoomAvailability.
SetRoomAvailabilityOut(st, roomID, fromDate, toDate, available, userIDs, f) ==
    IF fromDate > toDate
    THEN Ret("from date cannot be after to date", st)
    ELSE IF roomID \notin Rooms
    THEN Ret("room not found", st)
    ELSE LET done == SetDays(st.roomAvailability, roomID, fromDate, toDate,
                             available, userIDs, f)
         IN  Ret(done.err, [st EXCEPT !.roomAvailability = done.rows])

\* hotelRepository.FindRoomAvailabilityByDateRange: the rows of the room dated
\* from 00:00 of fromDate to 23:59:59 of toDate.
FindRoomAvailabilityByDateRange(rows, roomID, fromDate, toDate) ==
    {a \in rows : a.room = roomID /\ a.date >= Midnight(fromDate)
                                  /\ a.date < Midnight(toDate) + 24}

\* isSameDay
IsSameDay(t1, t2) == t1 \div 24 = t2 \div 24

\* A loop that also looks at the day check-out falls on.
RECURSIVE DaysOpen_Inclusive(_, _, _, _)
DaysOpen_Inclusive(availabilities, userID, d, checkOut) ==
    IF ~(d <= checkOut)
    THEN TRUE
    ELSE LET same == {a \in availabilities : IsSameDay(a.date, d)}
             dayAvailability == CHOOSE a \in same : \A o \in same : a.id <= o.id
         IN  IF same = {}
             THEN DaysOpen_Inclusive(availabilities, userID, AddDays(d, 1), checkOut)
             ELSE IF ~dayAvailability.available
             THEN FALSE
             ELSE IF dayAvailability.userIDs # {} /\ userID \notin dayAvailability.userIDs
             THEN FALSE
             ELSE DaysOpen_Inclusive(availabilities, userID, AddDays(d, 1), checkOut)

\* The loop of checkRoomAvailabilityForUser: for d := checkIn; d.Before(checkOut);
\* d += 1 day, each day judged by the first row of the date-sorted result that
\* falls on it.
RECURSIVE DaysOpen(_, _, _, _)
DaysOpen(availabilities, userID, d, checkOut) ==
    IF ~(d < checkOut)
    THEN TRUE
    ELSE LET same == {a \in availabilities : IsSameDay(a.date, d)}
             dayAvailability == CHOOSE a \in same : \A o \in same : a.id <= o.id
         IN  IF same = {}
             THEN DaysOpen(availabilities, userID, AddDays(d, 1), checkOut)
             ELSE IF ~dayAvailability.available
             THEN FALSE
             ELSE IF dayAvailability.userIDs # {} /\ userID \notin dayAvailability.userIDs
             THEN FALSE
             ELSE DaysOpen(availabilities, userID, AddDays(d, 1), checkOut)

\* bookingService.checkRoomAvailabilityForUser
CheckRoomAvailabilityForUser(st, roomID, userID, checkIn, checkOut) ==
    LET availabilities ==
            FindRoomAvailabilityByDateRange(st.roomAvailability, roomID, checkIn, checkOut)
    IN  IF ~CheckRoomAvailability(st.bookings, roomID, checkIn, checkOut)
        THEN FALSE
        ELSE IF availabilities = {}
        THEN TRUE
        ELSE DaysOpen(availabilities, userID, checkIn, checkOut)

\* dateService.SetSpecialDate: validate, cut the date to midnight, then update
\* the first rule found for the day or insert a new one.
SetSpecialDateOut(st, rule, f) ==
    IF rule.type = "" \/ rule.pointCost <= 0 \/ rule.pointCost > HolidayCost
    THEN Ret("invalid date rule data", st)
    ELSE LET date == Midnight(rule.date)
             existingRules == FindDateRules(st.dateRules, date, date)
             first == CHOOSE r \in existingRules : \A o \in existingRules : r.date <= o.date
         IN  IF f # "none"
             THEN Ret(DBError, st)
             ELSE IF existingRules # {}
             THEN Ret("nil", [st EXCEPT !.dateRules =
                        UpdateDateRule(@, [rule EXCEPT !.id = first.id])])
             ELSE Ret("nil", [st EXCEPT
                        !.dateRules = @ \cup {[id |-> st.nextRuleId, date |-> date,
                                               type |-> rule.type,
                                               pointCost |-> rule.pointCost,
                                               name |-> rule.name]},
                        !.nextRuleId = @ + 1])

\* dateService.DeleteSpecialDate
DeleteSpecialDateOut(st, id, f) ==
    IF f # "none"
    THEN Ret(DBError, st)
    ELSE Ret("nil", [st EXCEPT !.dateRules = DeleteDateRule(@, id)])

\* ------------------------------------------------------------- actions
\* The model's caps: ids ever issued and ledger rows ever appended.
WithinBounds(st) ==
    /\ st.nextId <= MaxBookings + 1
    /\ BagCardinality(st.transactions) <= MaxTx
    /\ st.nextRuleId <= MaxRules + 1
    /\ Cardinality(st.roomAvailability) <= MaxAvailRows

\* The handler's writes reach the store.
Apply(o) ==
    /\ WithinBounds(o.st)
    /\ users' = o.st.users
    /\ bookings' = o.st.bookings
    /\ nextId' = o.st.nextId
    /\ transactions' = o.st.transactions
    /\ dateRules' = o.st.dateRules
    /\ roomAvailability' = o.st.roomAvailability
    /\ nextRuleId' = o.st.nextRuleId
    /\ calls' = calls

Register(u, f) == Apply(RegisterOut(Store, u, f)) /\ UNCHANGED now
CreateBooking(userID, hotelID, roomID, checkIn, checkOut, f) ==
    /\ Apply(CreateBookingOut(Store, now, userID, hotelID, roomID, checkIn, checkOut, f))
    /\ UNCHANGED now
CancelBooking(id, userID, f) ==
    Apply(CancelBookingOut(Store, now, id, userID, f)) /\ UNCHANGED now
UpdateBookingStatus(id, status, f) ==
    Apply(UpdateBookingStatusOut(Store, id, status, f)) /\ UNCHANGED now
DeleteBooking(id, f) == Apply(DeleteBookingOut(Store, id, f)) /\ UNCHANGED now

SetRoomAvailability(roomID, fromDate, toDate, available, userIDs, f) ==
    /\ Apply(SetRoomAvailabilityOut(Store, roomID, fromDate, toDate, available, userIDs, f))
    /\ UNCHANGED now

SetSpecialDate(rule, f) == Apply(SetSpecialDateOut(Store, rule, f)) /\ UNCHANGED now
DeleteSpecialDate(id, f) == Apply(DeleteSpecialDateOut(Store, id, f)) /\ UNCHANGED now

\* ------------------------------------------------------------- CreateBooking, call by call
\* CreateBooking up to its first persistence calls: userRepo.FindByID keeps the
\* user document read now, hotelRepo.FindByID and FindRoomByID validate.
FindUser(p, userID, hotelID, roomID, checkIn, checkOut) ==
    /\ calls[p].pc = "idle"
    /\ calls' = [calls EXCEPT ![p] =
            IF \/ userID \notin DOMAIN users
               \/ hotelID \notin Hotels
               \/ roomID \notin Rooms
               \/ RoomHotel[roomID] # hotelID
            THEN Idle
            ELSE [pc |-> "calc", user |-> userID, hotel |-> hotelID, room |-> roomID,
                  checkIn |-> AtHour(checkIn, CheckInHour),
                  checkOut |-> AtHour(checkOut, CheckOutHour),
                  balance |-> users[userID].pointBalance, cost |-> 0, id |-> 0]]
    /\ UNCHANGED <<now, users, bookings, nextId, transactions, dateRules, roomAvailability,
                   nextRuleId>>

\* CalculatePointCost (availability query and rule lookups), then the balance
\* check against the user document read before.
CalcCost(p) ==
    /\ calls[p].pc = "calc"
    /\ LET c == calls[p]
           calc == CalculatePointCost(Store, now, c.room, c.checkIn, c.checkOut)
       IN  calls' = [calls EXCEPT ![p] =
                IF calc.err # "nil" \/ ~HasEnoughPoints(c.balance, calc.cost)
                THEN Idle
                ELSE [c EXCEPT !.pc = "insert", !.cost = calc.cost]]
    /\ UNCHANGED <<now, users, bookings, nextId, transactions, dateRules, roomAvailability,
                   nextRuleId>>

\* bookingRepo.Create
InsertBooking(p) ==
    /\ calls[p].pc = "insert"
    /\ nextId <= MaxBookings
    /\ LET c == calls[p]
       IN  /\ bookings' = Create(bookings,
                    [id |-> nextId, user |-> c.user, hotel |-> c.hotel, room |-> c.room,
                     checkIn |-> c.checkIn, checkOut |-> c.checkOut,
                     pointCost |-> c.cost, status |-> "confirmed"])
           /\ calls' = [calls EXCEPT ![p] = [c EXCEPT !.pc = "debit", !.id = nextId]]
    /\ nextId' = nextId + 1
    /\ UNCHANGED <<now, users, transactions, dateRules, roomAvailability, nextRuleId>>

\* userRepo.UpdatePointBalance(userID, -pointCost)
DebitPoints(p) ==
    /\ calls[p].pc = "debit"
    /\ users' = UpdatePointBalance(users, calls[p].user, -calls[p].cost)
    /\ calls' = [calls EXCEPT ![p].pc = "log"]
    /\ UNCHANGED <<now, bookings, nextId, transactions, dateRules, roomAvailability,
                   nextRuleId>>

\* userRepo.CreatePointTransaction, and the call returns.
LogTransaction(p) ==
    /\ calls[p].pc = "log"
    /\ BagCardinality(transactions) < MaxTx
    /\ transactions' = CreatePointTransaction(transactions, calls[p].user, -calls[p].cost,
                                              "booking_deduction", calls[p].id)
    /\ calls' = [calls EXCEPT ![p] = Idle]
    /\ UNCHANGED <<now, users, bookings, nextId, dateRules, roomAvailability, nextRuleId>>

\* ------------------------------------------------------------- SetSpecialDate, call by call
\* No rule found for the day.
NoRule == -1

\* SetSpecialDate up to dateRepo.FindDateRules: the call validates, cuts the
\* date to midnight and keeps the id of existingRules[0], any of the rules of
\* the day when there are several (the query sorts by date only).
FindRules(p, rule) ==
    /\ calls[p].pc = "idle"
    /\ LET date == Midnight(rule.date)
           existingRules == FindDateRules(dateRules, date, date)
       IN  IF rule.type = "" \/ rule.pointCost <= 0 \/ rule.pointCost > HolidayCost
           THEN calls' = calls
           ELSE \E first \in {r.id : r \in existingRules} \cup {NoRule} :
                    /\ first = NoRule <=> existingRules = {}
                    /\ calls' = [calls EXCEPT ![p] =
                            [pc |-> "write", rule |-> [rule EXCEPT !.date = date],
                             existing |-> first]]
    /\ UNCHANGED <<now, users, bookings, nextId, transactions, dateRules, roomAvailability,
                   nextRuleId>>

\* dateRepo.UpdateDateRule on the rule found, or dateRepo.CreateDateRule; the
\* call returns.
WriteRule(p) ==
    /\ calls[p].pc = "write"
    /\ LET c == calls[p]
       IN  IF c.existing # NoRule
           THEN /\ dateRules' = UpdateDateRule(dateRules, [c.rule EXCEPT !.id = c.existing])
                /\ nextRuleId' = nextRuleId
           ELSE /\ nextRuleId <= MaxRules
                /\ dateRules' = dateRules \cup {[c.rule EXCEPT !.id = nextRuleId]}
                /\ nextRuleId' = nextRuleId + 1
    /\ calls' = [calls EXCEPT ![p] = Idle]
    /\ UNCHANGED <<now, users, bookings, nextId, transactions, roomAvailability>>

\* ------------------------------------------------------------- refunds, call by call
\* CancelBooking, UpdateBookingStatus(id, "cancelled") or DeleteBooking up to its
\* first write: bookingRepo.FindByID keeps the booking read now, and the checks
\* of the operation are made on it.  What follows is decided here: CancelBooking
\* writes the status, then credits and logs; the other two credit and log when
\* the booking read is not cancelled, then write the status or delete the row.
ReadBooking(p, op, id, userID) ==
    /\ calls[p].pc = "idle"
    /\ calls' = [calls EXCEPT ![p] =
            IF ~Exists(bookings, id)
            THEN Idle
            ELSE LET booking == FindByID(bookings, id)
                     call == [pc |-> "credit", op |-> op, id |-> id, owner |-> booking.user,
                              cost |-> booking.pointCost]
                 IN  IF op = "cancel"
                     THEN IF CancelBookingOut(Store, now, id, userID, "none").err # "nil"
                          THEN Idle
                          ELSE [call EXCEPT !.pc = "cancelled"]
                     ELSE IF booking.status # "cancelled"
                     THEN call
                     ELSE [call EXCEPT !.pc = "finish"]]
    /\ UNCHANGED <<now, users, bookings, nextId, transactions, dateRules, roomAvailability,
                   nextRuleId>>

\* CancelBooking: bookingRepo.UpdateStatus(id, "cancelled")
WriteCancelled(p) ==
    /\ calls[p].pc = "cancelled"
    /\ bookings' = UpdateStatus(bookings, calls[p].id, "cancelled")
    /\ calls' = [calls EXCEPT ![p].pc = "credit"]
    /\ UNCHANGED <<now, users, nextId, transactions, dateRules, roomAvailability, nextRuleId>>

\* userRepo.UpdatePointBalance(booking.UserID, booking.PointCost)
CreditPoints(p) ==
    /\ calls[p].pc = "credit"
    /\ users' = UpdatePointBalance(users, calls[p].owner, calls[p].cost)
    /\ calls' = [calls EXCEPT ![p].pc = "log"]
    /\ UNCHANGED <<now, bookings, nextId, transactions, dateRules, roomAvailability,
                   nextRuleId>>

\* userRepo.CreatePointTransaction of the refund; CancelBooking returns.
LogRefund(p) ==
    /\ calls[p].pc = "log"
    /\ BagCardinality(transactions) < MaxTx
    /\ transactions' = CreatePointTransaction(transactions, calls[p].owner, calls[p].cost,
            IF calls[p].op = "delete" THEN "booking_deletion_refund" ELSE "booking_refund",
            calls[p].id)
    /\ calls' = [calls EXCEPT ![p] =
            IF calls[p].op = "cancel" THEN Idle ELSE [calls[p] EXCEPT !.pc = "finish"]]
    /\ UNCHANGED <<now, users, bookings, nextId, dateRules, roomAvailability, nextRuleId>>

\* The last call of UpdateBookingStatus (bookingRepo.UpdateStatus) or of
\* DeleteBooking (bookingRepo.Delete); the call returns.
Finish(p) ==
    /\ calls[p].pc = "finish"
    /\ bookings' = IF calls[p].op = "delete"
                   THEN DeleteRow(bookings, calls[p].id)
                   ELSE UpdateStatus(bookings, calls[p].id, "cancelled")
    /\ calls' = [calls EXCEPT ![p] = Idle]
    /\ UNCHANGED <<now, users, nextId, transactions, dateRules, roomAvailability, nextRuleId>>

\* The clock advances.
Tick ==
    /\ \E t \in Instants : t > now /\ now' = t
    /\ UNCHANGED <<users, bookings, nextId, transactions, dateRules, roomAvailability,
                   nextRuleId, calls>>

\* ------------------------------------------------------------- requests
BookingIds == 1..MaxBookings
\* The handlers parse dates as YYYY-MM-DD: midnight of the day.
DateInputs == {24 * d : d \in Days}

DoRegister == \E u \in UserIds : Register(u, "none")
DoCreateBooking ==
    \E u \in UserIds, h \in Hotels, r \in Rooms, ci \in DateInputs, co \in DateInputs :
        CreateBooking(u, h, r, ci, co, "none")
DoCancelBooking == \E id \in BookingIds, u \in UserIds : CancelBooking(id, u, "none")
DoUpdateBookingStatus ==
    \E id \in BookingIds, s \in StatusInputs : UpdateBookingStatus(id, s, "none")
DoDeleteBooking == \E id \in BookingIds : DeleteBooking(id, "none")

Next ==
    \/ Tick
    \/ DoRegister
    \/ DoCreateBooking
    \/ DoCancelBooking
    \/ DoUpdateBookingStatus
    \/ DoDeleteBooking

Spec == Init /\ [][Next]_vars

\* The booking operations with persistence calls that may fail: each request
\* names the call of the handler that returns an error ("none": no call fails;
\* "balance+status": the debit and the status write that follows it).
CreateFailures == {"none", "insert", "balance", "balance+status", "tx"}
CancelFailures == {"none", "status", "balance", "tx"}
StatusFailures == {"none", "balance", "tx", "status"}
DeleteFailures == {"none", "balance", "tx", "delete"}
FailDates == {24 * d : d \in 0..MaxDay}

DoCreateBookingF ==
    \E ci \in {24 * 0}, co \in FailDates, f \in CreateFailures :
        CreateBooking("u1", "h1", "r1", ci, co, f)
DoCancelBookingF ==
    \E id \in BookingIds, u \in UserIds, f \in CancelFailures : CancelBooking(id, u, f)
DoUpdateBookingStatusF ==
    \E id \in BookingIds, s \in Statuses, f \in StatusFailures : UpdateBookingStatus(id, s, f)
DoDeleteBookingF == \E id \in BookingIds, f \in DeleteFailures : DeleteBooking(id, f)

NextFail ==
    \/ DoRegister
    \/ DoCreateBookingF
    \/ DoCancelBookingF
    \/ DoUpdateBookingStatusF
    \/ DoDeleteBookingF

SpecFail == Init /\ [][NextFail]_vars

\* The booking path with an administrator setting availability overrides.
AvailRooms == {"r1"}
AvailDates == {24 * d : d \in 0..MaxDay}
AllowedUserSets == {{}, {"u1"}}
DoSetRoomAvailability ==
    \E r \in AvailRooms, fd \in AvailDates, td \in AvailDates,
       av \in BOOLEAN, us \in AllowedUserSets :
        SetRoomAvailability(r, fd, td, av, us, NoFailure)

NextAvail ==
    \/ DoRegister
    \/ DoSetRoomAvailability
    \/ DoCreateBooking
    \/ DoCancelBooking

SpecAvail == Init /\ [][NextAvail]_vars

\* An administrator setting availability overrides while lookups and writes of
\* the store may fail.
AvailFailures ==
    {NoFailure} \cup {[call |-> c, day |-> d] : c \in {"lookup", "write"}, d \in AvailDates}
DoSetRoomAvailabilityF ==
    \E r \in AvailRooms, fd \in AvailDates, td \in AvailDates,
       av \in BOOLEAN, us \in AllowedUserSets, f \in AvailFailures :
        SetRoomAvailability(r, fd, td, av, us, f)

NextAvailFail ==
    \/ DoRegister
    \/ DoSetRoomAvailabilityF

SpecAvailFail == Init /\ [][NextAvailFail]_vars

\* The calendar with an administrator editing the date rules, while days pass.
RuleDays == 0..(MaxDay + 1)
RuleInputs ==
    {[id |-> 0, date |-> 24 * d, type |-> k.type, pointCost |-> k.pointCost, name |-> k.type] :
        d \in RuleDays,
        k \in {[type |-> "holiday", pointCost |-> HolidayCost],
               [type |-> "regular", pointCost |-> RegularCost],
               [type |-> "holiday", pointCost |-> HolidayCost + 1],
               [type |-> "weekend", pointCost |-> 0]}}
RuleIds == 0..MaxRules
DayInstants == {24 * d + h : d \in 0..(MaxClockDay + 2), h \in {0, CheckInHour}}

DoSetSpecialDate == \E rule \in RuleInputs : SetSpecialDate(rule, "none")
DoDeleteSpecialDate == \E id \in RuleIds : DeleteSpecialDate(id, "none")
DoCreateBookingR1 ==
    \E ci \in DateInputs, co \in DateInputs : CreateBooking("admin", "h1", "r1", ci, co, "none")
TickDay ==
    /\ \E t \in DayInstants : t > now /\ now' = t
    /\ UNCHANGED <<users, bookings, nextId, transactions, dateRules, roomAvailability,
                   nextRuleId, calls>>

NextDates ==
    \/ TickDay
    \/ DoSetSpecialDate
    \/ DoDeleteSpecialDate
    \/ DoCreateBookingR1

SpecDates == Init /\ [][NextDates]_vars

\* SetSpecialDate calls served at the same time, one persistence call per step,
\* and DeleteSpecialDate, which is one persistence call.
RaceRuleInputs == {r \in RuleInputs : r.date <= 24 * MaxDay}
DoFindRules == \E p \in Procs, rule \in RaceRuleInputs : FindRules(p, rule)
DoWriteRule == \E p \in Procs : WriteRule(p)

NextRuleRace ==
    \/ DoFindRules
    \/ DoWriteRule
    \/ DoDeleteSpecialDate

SpecRuleRace == Init /\ [][NextRuleRace]_vars

\* CancelBooking, UpdateBookingStatus(id, "cancelled") and DeleteBooking calls
\* served at the same time, one persistence call per step, on bookings that
\* CreateBooking made and debited before.
RefundOps == {"cancel", "status", "delete"}
DoCreateBookingLater ==
    \E u \in UserIds : CreateBooking(u, "h1", "r1", 24 * MaxDay, 24 * FarDay, "none")
DoReadBooking ==
    \E p \in Procs, op \in RefundOps, id \in BookingIds, u \in UserIds :
        ReadBooking(p, op, id, u)
DoWriteCancelled == \E p \in Procs : WriteCancelled(p)
DoCreditPoints == \E p \in Procs : CreditPoints(p)
DoLogRefund == \E p \in Procs : LogRefund(p)
DoFinish == \E p \in Procs : Finish(p)

NextRefundRace ==
    \/ DoRegister
    \/ DoCreateBookingLater
    \/ DoReadBooking
    \/ DoWriteCancelled
    \/ DoCreditPoints
    \/ DoLogRefund
    \/ DoFinish

SpecRefundRace == Init /\ [][NextRefundRace]_vars

\* Two CreateBooking calls served at the same time, one persistence call per step.
\* The stays requested: from day 0, a short one and a long one.
RaceCheckIns == {24 * 0}
RaceCheckOuts == {24 * MaxDay, 24 * FarDay}
DoFindUser ==
    \E p \in Procs, u \in UserIds, r \in Rooms, ci \in RaceCheckIns, co \in RaceCheckOuts :
        FindUser(p, u, RoomHotel[r], r, ci, co)
DoCalcCost == \E p \in Procs : CalcCost(p)
DoInsertBooking == \E p \in Procs : InsertBooking(p)
DoDebitPoints == \E p \in Procs : DebitPoints(p)
DoLogTransaction == \E p \in Procs : LogTransaction(p)

NextRace ==
    \/ DoRegister
    \/ DoFindUser
    \/ DoCalcCost
    \/ DoInsertBooking
    \/ DoDebitPoints
    \/ DoLogTransaction

SpecRace == Init /\ [][NextRace]_vars

\* ------------------------------------------------------------- properties
Overlap(b1, b2) == b1.checkIn < b2.checkOut /\ b1.checkOut > b2.checkIn
Active(b) == b.status # "cancelled"

TxRow(userID, amount, type, ref) ==
    [user |-> userID, amount |-> amount, type |-> type, ref |-> ref]
TxCopies(txs, userID, amount, type, ref) == CopiesIn(TxRow(userID, amount, type, ref), txs)

RECURSIVE SumAmounts(_, _)
SumAmounts(txs, rows) ==
    IF rows = {} THEN 0
    ELSE LET r == CHOOSE x \in rows : TRUE
         IN  r.amount * CopiesIn(r, txs) + SumAmounts(txs, rows \ {r})
LedgerSum(u) == SumAmounts(transactions, {r \in BagToSet(transactions) : r.user = u})

RECURSIVE SumPointCosts(_)
SumPointCosts(bs) ==
    IF bs = {} THEN 0
    ELSE LET b == CHOOSE x \in bs : TRUE IN b.pointCost + SumPointCosts(bs \ {b})

\* The points a user was granted: 100 to the seeded admin, 24 at registration.
Granted(u) == IF u \in DOMAIN SeedUsers THEN AdminPoints ELSE InitialPoints

\* C1: no two existing non-cancelled bookings of the same room overlap
\* (b1.checkIn < b2.checkOut and b1.checkOut > b2.checkIn), in every state
\* reached by CreateBooking, CancelBooking, UpdateBookingStatus and DeleteBooking
\* run one at a time.
C1_NoDoubleBooking ==
    \A b1 \in bookings : \A b2 \in bookings :
        (b1.id # b2.id /\ b1.room = b2.room /\ Active(b1) /\ Active(b2)) => ~Overlap(b1, b2)

\* C2: with the handlers run one at a time and no persistence failure, every
\* user's pointBalance is >= 0 in every reachable state.
C2_NoNegativeBalance == \A u \in DOMAIN users : users[u].pointBalance >= 0

\* A state in which points were spent and a further booking is refused for
\* lack of points.
C2_Witness ==
    \E u \in DOMAIN users : \E r \in Rooms : \E ci \in DateInputs : \E co \in DateInputs :
        /\ users[u].pointBalance < Granted(u)
        /\ CreateBookingOut(Store, now, u, RoomHotel[r], r, ci, co, "none").err
                = "insufficient point balance"

\* C3: for every user the amounts of the user's PointTransaction rows sum to
\* the user's pointBalance.
C3_LedgerConsistent == \A u \in DOMAIN users : LedgerSum(u) = users[u].pointBalance

\* C4: every user's pointBalance equals the points granted to the user minus
\* the pointCost of the user's existing non-cancelled bookings; cancelled and
\* deleted bookings contribute nothing.
C4_BalanceReflectsActiveBookings ==
    \A u \in DOMAIN users :
        users[u].pointBalance
            = Granted(u) - SumPointCosts({b \in bookings : b.user = u /\ Active(b)})

\* A booking was deleted, one is cancelled, and its owner holds the grant again.
C4_Witness ==
    /\ nextId = MaxBookings + 1
    /\ \E b \in bookings :
        /\ b.status = "cancelled" /\ b.pointCost > 0
        /\ Cardinality(bookings) = 1
        /\ users[b.user].pointBalance = Granted(b.user)
        /\ \E x \in BagToSet(transactions) : x.type = "booking_deletion_refund"


Unavailable == "room is not available for the selected dates"
TooLate == "cannot cancel booking within 24 hours of check-in"

\* C5: whenever CreateBooking succeeds, a CancelBooking by the owner that follows
\* it more than 24 hours before check-in succeeds, leaves the owner's
\* pointBalance as it was before the booking, and leaves the log with exactly
\* one booking_deduction of -pointCost and one booking_refund of +pointCost
\* for that booking added.
C5_RoundTrip ==
    \A u \in DOMAIN users : \A r \in Rooms : \A ci \in DateInputs : \A co \in DateInputs :
      \A t \in Instants :
        LET c == CreateBookingOut(Store, now, u, RoomHotel[r], r, ci, co, "none")
            id == nextId
            b == FindByID(c.st.bookings, id)
            x == CancelBookingOut(c.st, t, id, u, "none")
        IN  (c.err = "nil" /\ t >= now /\ b.checkIn - t > 24) =>
                /\ x.err = "nil"
                /\ x.st.users[u].pointBalance = users[u].pointBalance
                /\ x.st.transactions =
                        (transactions
                            (+) SetToBag({TxRow(u, -b.pointCost, "booking_deduction", id)}))
                            (+) SetToBag({TxRow(u, b.pointCost, "booking_refund", id)})

\* A booking that cost points was created and then cancelled by CancelBooking:
\* its owner holds the grant again and the log has its debit and its credit.
C5_Witness ==
    \E b \in bookings :
        /\ b.status = "cancelled" /\ b.pointCost > 0
        /\ users[b.user].pointBalance = Granted(b.user)
        /\ TxCopies(transactions, b.user, -b.pointCost, "booking_deduction", b.id) = 1
        /\ TxCopies(transactions, b.user, b.pointCost, "booking_refund", b.id) = 1
        /\ \A x \in BagToSet(transactions) : x.ref = b.id =>
                x.type \in {"booking_deduction", "booking_refund"}

\* C6: when the only non-cancelled booking of a room covers [D1, D2), neither
\* CalculatePointCost nor CreateBooking rejects as not available a stay in that
\* room that checks in on D2, nor one that checks out on D1.
C6_BackToBackPermitted ==
    \A b \in bookings :
        (/\ Active(b)
         /\ Midnight(b.checkIn) < Midnight(b.checkOut)
         /\ \A o \in bookings : (o.room = b.room /\ Active(o)) => o = b) =>
            \A u \in DOMAIN users : \A d \in DateInputs :
                /\ d > Midnight(b.checkOut) =>
                    /\ CalculatePointCost(Store, now, b.room, Midnight(b.checkOut), d).err
                            # Unavailable
                    /\ CreateBookingOut(Store, now, u, RoomHotel[b.room], b.room,
                                        Midnight(b.checkOut), d, "none").err # Unavailable
                /\ d < Midnight(b.checkIn) =>
                    /\ CalculatePointCost(Store, now, b.room, d, Midnight(b.checkIn)).err
                            # Unavailable
                    /\ CreateBookingOut(Store, now, u, RoomHotel[b.room], b.room,
                                        d, Midnight(b.checkIn), "none").err # Unavailable

\* The instants an availability query is probed with: midnight, check-out hour
\* and check-in hour of every day.
ProbeInstants == {24 * d + h : d \in Days, h \in {0, CheckOutHour, CheckInHour}}

\* C7: CheckRoomAvailability(room, checkIn, checkOut) is false exactly when a
\* pending, confirmed or completed booking of that room has
\* checkIn < checkOut-argument and checkOut > checkIn-argument; cancelled rows
\* and rows of other rooms never count, so once CancelBooking has cancelled the
\* only booking in the way, its dates are free again.
C7_IsRoomFreeExact ==
    /\ \A r \in Rooms : \A ci \in ProbeInstants : \A co \in ProbeInstants :
        CheckRoomAvailability(bookings, r, ci, co)
            = ~(\E b \in bookings :
                    /\ b.room = r
                    /\ b.status \in {"pending", "confirmed", "completed"}
                    /\ b.checkIn < co
                    /\ b.checkOut > ci)
    /\ \A b \in bookings : \A u \in UserIds :
        LET x == CancelBookingOut(Store, now, b.id, u, "none")
        IN  (/\ x.err = "nil"
             /\ \A o \in bookings :
                    (o # b /\ o.room = b.room /\ Active(o)) => ~Overlap(o, b)) =>
                CheckRoomAvailability(x.st.bookings, b.room, b.checkIn, b.checkOut)

\* A cancelled booking whose dates are free again in its room, while a completed
\* booking of the same dates keeps the other room taken.
C7_Witness ==
    \E b1 \in bookings : \E b2 \in bookings :
        /\ b1.status = "cancelled" /\ b2.status = "completed"
        /\ b1.room # b2.room /\ Overlap(b1, b2) /\ b1.checkIn < b1.checkOut
        /\ CheckRoomAvailability(bookings, b1.room, b1.checkIn, b1.checkOut)
        /\ ~CheckRoomAvailability(bookings, b2.room, b1.checkIn, b1.checkOut)

\* The transitions of the booking state machine.
AllowedTransitions ==
    {<<"pending", "confirmed">>, <<"confirmed", "completed">>,
     <<"pending", "cancelled">>, <<"confirmed", "cancelled">>,
     <<"cancelled", "confirmed">>, <<"cancelled", "pending">>}

\* C9: the only status changes a step makes to a booking are
\* pending -> confirmed, confirmed -> completed, pending -> cancelled,
\* confirmed -> cancelled, cancelled -> confirmed and cancelled -> pending.
C9_StatusMachine ==
    [][\A b \in bookings : \A c \in bookings' :
            (c.id = b.id /\ c.status # b.status) =>
                <<b.status, c.status>> \in AllowedTransitions]_vars

\* The requester of C10: the owner, or a user with role admin.
OwnerOrAdmin(b, u) == u = b.user \/ (u \in DOMAIN users /\ users[u].role = "admin")

\* C10 as stated: for every booking and every requester (owner or admin),
\* CancelBooking at now > checkIn - 24h returns the cancel-window error and
\* leaves the store as it is; at now <= checkIn - 24h it does not return that
\* error.
C10_CutoffEveryBooking ==
    \A b \in bookings : \A u \in UserIds :
        OwnerOrAdmin(b, u) =>
            LET x == CancelBookingOut(Store, now, b.id, u, "none")
            IN  IF now > b.checkIn - 24
                THEN x.err = TooLate /\ x.st = Store
                ELSE x.err # TooLate

\* C10 (amended): the same for every booking whose status is pending or
\* confirmed; a cancelled or completed booking is rejected for its status first.
C10_CutoffOpenBooking ==
    \A b \in bookings : \A u \in UserIds :
        OwnerOrAdmin(b, u) =>
            LET x == CancelBookingOut(Store, now, b.id, u, "none")
            IN  IF now > b.checkIn - 24
                THEN b.status \in {"pending", "confirmed"} => (x.err = TooLate /\ x.st = Store)
                ELSE x.err # TooLate

\* Exactly 24 hours before the check-in of one confirmed booking, which can
\* still be cancelled, and less than 24 hours before that of another, which
\* cannot.
C10_Witness ==
    \E b1 \in bookings : \E b2 \in bookings :
        /\ b1.status = "confirmed" /\ now = b1.checkIn - 24
        /\ CancelBookingOut(Store, now, b1.id, b1.user, "none").err = "nil"
        /\ b2.status = "confirmed" /\ now > b2.checkIn - 24 /\ b2.pointCost > 0
        /\ CancelBookingOut(Store, now, b2.id, b2.user, "none").err = TooLate

\* The override check of a day for a user: a row with available = false, or
\* with a non-empty allowed-user set that does not contain the user.
Blocked(a, u) == ~a.available \/ (a.userIDs # {} /\ u \notin a.userIDs)

\* C8: whenever some calendar day of [checkIn, checkOut) has a RoomAvailability
\* row of the room that blocks the user, CalculatePointCost and CreateBooking
\* for that room, user and range fail, and CreateBooking leaves bookings,
\* balances and transactions as they are.
C8_OverridesEnforced ==
    \A u \in DOMAIN users : \A r \in Rooms : \A ci \in DateInputs : \A co \in DateInputs :
        (\E a \in roomAvailability :
            /\ a.room = r /\ Blocked(a, u)
            /\ Midnight(ci) <= a.date /\ a.date < Midnight(co)) =>
                LET c == CreateBookingOut(Store, now, u, RoomHotel[r], r, ci, co, "none")
                IN  /\ CalculatePointCost(Store, now, r, ci, co).err # "nil"
                    /\ c.err # "nil"
                    /\ c.st = Store

Insufficient == "insufficient point balance"
Unauthorized == "unauthorized to cancel this booking"

\* C11: for every user and stay whose computed cost exceeds the user's
\* pointBalance, CreateBooking fails with the insufficient-balance error and
\* leaves bookings, balances and transactions as they are.
C11_InsufficientBalance ==
    \A u \in DOMAIN users : \A r \in Rooms : \A ci \in DateInputs : \A co \in DateInputs :
        LET calc == CalculatePointCost(Store, now, r, AtHour(ci, CheckInHour),
                                       AtHour(co, CheckOutHour))
            c == CreateBookingOut(Store, now, u, RoomHotel[r], r, ci, co, "none")
        IN  (calc.err = "nil" /\ calc.cost > users[u].pointBalance) =>
                (c.err = Insufficient /\ c.st = Store)

\* A user who has spent points can afford one free stay but not another, which
\* CreateBooking refuses.
C11_Witness ==
    \E u \in DOMAIN users : \E r \in Rooms :
      \E ci \in DateInputs : \E co \in DateInputs : \E co2 \in DateInputs :
        LET calc == CalculatePointCost(Store, now, r, AtHour(ci, CheckInHour),
                                       AtHour(co, CheckOutHour))
        IN  /\ calc.err = "nil"
            /\ users[u].pointBalance > 0
            /\ calc.cost > users[u].pointBalance
            /\ CreateBookingOut(Store, now, u, RoomHotel[r], r, ci, co, "none").err
                    = Insufficient
            /\ CreateBookingOut(Store, now, u, RoomHotel[r], r, ci, co2, "none").err = "nil"
            /\ ci < co2

\* C12: CancelBooking by a requester who is neither the booking's owner nor a
\* user with role admin (a requester id that does not exist included) fails
\* with the unauthorized error and leaves bookings, balances and transactions
\* as they are; it succeeds only for the owner or an admin.
C12_CancelAuthorization ==
    \A b \in bookings : \A u \in UserIds :
        LET x == CancelBookingOut(Store, now, b.id, u, "none")
        IN  /\ ~OwnerOrAdmin(b, u) => (x.err = Unauthorized /\ x.st = Store)
            /\ x.err = "nil" => OwnerOrAdmin(b, u)

\* A booking its owner can cancel now, and a registered user without the admin
\* role who is refused.
C12_Witness ==
    \E b \in bookings : \E u \in DOMAIN users :
        /\ u # b.user /\ users[u].role # RoleAdmin
        /\ b.pointCost > 0
        /\ CancelBookingOut(Store, now, b.id, b.user, "none").err = "nil"
        /\ CancelBookingOut(Store, now, b.id, u, "none").err = Unauthorized

Logged(txs, userID, amount, type, ref) == txs (+) SetToBag({TxRow(userID, amount, type, ref)})

\* C19: UpdateBookingStatus(b, s) with s one of the four statuses: from
\* cancelled to another status it requires the owner's balance >= b.pointCost,
\* debits b.pointCost and logs one booking_reactivation row, and with a smaller
\* balance fails and changes nothing; from a non-cancelled status to cancelled
\* it credits b.pointCost and logs one booking_refund row; any other move
\* changes no balance and logs nothing; on success the status is s and nothing
\* else in bookings changes.  Any other s is rejected and changes nothing.
C19_StatusLedgerEffect ==
    \A b \in bookings : \A s \in StatusInputs :
        LET x == UpdateBookingStatusOut(Store, b.id, s, "none")
            bal == users[b.user].pointBalance
            done == /\ x.err = "nil"
                    /\ x.st.bookings = (bookings \ {b}) \cup {[b EXCEPT !.status = s]}
                    /\ \A u \in DOMAIN users : u # b.user => x.st.users[u] = users[u]
        IN  IF s \notin Statuses
            THEN x.err = "invalid booking status" /\ x.st = Store
            ELSE IF b.status = "cancelled" /\ s # "cancelled"
            THEN IF bal >= b.pointCost
                 THEN /\ done
                      /\ x.st.users[b.user].pointBalance = bal - b.pointCost
                      /\ x.st.transactions =
                            Logged(transactions, b.user, -b.pointCost,
                                   "booking_reactivation", b.id)
                 ELSE x.err # "nil" /\ x.st = Store
            ELSE IF b.status # "cancelled" /\ s = "cancelled"
            THEN /\ done
                 /\ x.st.users[b.user].pointBalance = bal + b.pointCost
                 /\ x.st.transactions =
                        Logged(transactions, b.user, b.pointCost, "booking_refund", b.id)
            ELSE /\ done
                 /\ x.st.users = users
                 /\ x.st.transactions = transactions

\* A booking that UpdateBookingStatus cancelled with a refund, and whose
\* reactivation is refused now because its owner has spent the points since.
C19_Witness ==
    \E b \in bookings :
        /\ b.status = "cancelled" /\ b.pointCost > users[b.user].pointBalance
        /\ TxCopies(transactions, b.user, b.pointCost, "booking_refund", b.id) = 1
        /\ UpdateBookingStatusOut(Store, b.id, "pending", "none").err
                = "insufficient point balance to reactivate booking"
        /\ UpdateBookingStatusOut(Store, b.id, "cancelled", "none").err = "nil"

\* C20: DeleteBooking(b) succeeds and removes the row of b and no other; when
\* b is not cancelled the owner is credited b.pointCost with one
\* booking_deletion_refund row, when b is cancelled no balance and no log row
\* changes; afterwards b does not count against the availability of its room.
C20_DeleteEffect ==
    \A b \in bookings :
        LET x == DeleteBookingOut(Store, b.id, "none")
        IN  /\ x.err = "nil"
            /\ x.st.bookings = bookings \ {b}
            /\ ~Exists(x.st.bookings, b.id)
            /\ IF b.status # "cancelled"
               THEN /\ x.st.users = UpdatePointBalance(users, b.user, b.pointCost)
                    /\ x.st.users[b.user].pointBalance
                            = users[b.user].pointBalance + b.pointCost
                    /\ x.st.transactions =
                            Logged(transactions, b.user, b.pointCost,
                                   "booking_deletion_refund", b.id)
               ELSE x.st.users = users /\ x.st.transactions = transactions
            /\ (\A o \in bookings : (o # b /\ o.room = b.room /\ Active(o)) => ~Overlap(o, b))
                    => CheckRoomAvailability(x.st.bookings, b.room, b.checkIn, b.checkOut)

\* DeleteBooking removed a completed booking with a refund, its dates are free
\* again, and a cancelled booking is left whose deletion credits nothing.
C20_Witness ==
    \E x \in BagToSet(transactions) : \E c \in bookings :
        /\ x.type = "booking_deletion_refund" /\ x.amount > 0
        /\ ~Exists(bookings, x.ref)
        /\ TxCopies(transactions, x.user, -x.amount, "booking_deduction", x.ref) = 1
        /\ c.status = "cancelled" /\ c.pointCost > 0
        /\ DeleteBookingOut(Store, c.id, "none").st.users = users
        /\ CheckRoomAvailability(bookings, c.room, c.checkIn, c.checkOut)

\* The days and dates the cost rules are examined on: a full week and a day.
WeekDays == 0..(MaxDay + 6)
WeekDates == {24 * d : d \in WeekDays}
WeekInstants == {24 * d + h : d \in WeekDays, h \in {0, CheckInHour}}

\* The stored rules of the calendar day of instant d.
RulesOn(d) == {r \in dateRules : r.date \div 24 = d \div 24}
IsWeekend(d) == Weekday(d) \in {Saturday, Sunday}
\* The per-day cost and type the rule of C16 prescribes.
DayCostIs(d, cost, type) ==
    IF RulesOn(d) # {}
    THEN \A r \in RulesOn(d) : cost = r.pointCost /\ type \in {r.type, "any"}
    ELSE IF IsWeekend(d)
    THEN cost = WeekendCost /\ type \in {"weekend", "any"}
    ELSE cost = RegularCost /\ type \in {"regular", "any"}

\* C16: for every date d the cost used for d is the stored rule's pointCost
\* (and type) when a rule exists for d, whatever the weekday, and otherwise
\* 2 ('weekend') on a Saturday or Sunday and 1 ('regular') on any other day;
\* both in GetPointCostForDate and in the per-day details of
\* CalculatePointCostWithDetails.
C16_PerDayCost ==
    /\ \A d \in WeekInstants : DayCostIs(d, GetPointCostForDate(dateRules, d), "any")
    /\ \A ci \in WeekDates : \A co \in WeekDates :
        LET w == CalculatePointCostWithDetails(Store, now, "r2", ci, co)
        IN  w.err = "nil" =>
                \A i \in 1..Len(w.details) :
                    /\ w.details[i].date = AddDays(ci, i - 1)
                    /\ DayCostIs(w.details[i].date, w.details[i].pointCost,
                                 w.details[i].dayType)

\* A Saturday that a rule makes cost 1, a weekday that a rule makes cost 3, and
\* a Sunday without a rule that costs 2.
C16_Witness ==
    \E sat \in WeekDates : \E wd \in WeekDates : \E sun \in WeekDates :
        /\ Weekday(sat) = Saturday /\ \E r \in RulesOn(sat) : r.pointCost = RegularCost
        /\ GetPointCostForDate(dateRules, sat) = RegularCost
        /\ ~IsWeekend(wd) /\ \E r \in RulesOn(wd) : r.pointCost = HolidayCost
        /\ GetPointCostForDate(dateRules, wd) = HolidayCost
        /\ Weekday(sun) = Sunday /\ RulesOn(sun) = {}
        /\ GetPointCostForDate(dateRules, sun) = WeekendCost

\* The sum of the per-day costs of a set of days, by the rule of C16.
RECURSIVE SumOfDays(_)
SumOfDays(ds) ==
    IF ds = {} THEN 0
    ELSE LET d == CHOOSE x \in ds : TRUE
         IN  GetPointCostForDate(dateRules, 24 * d) + SumOfDays(ds \ {d})

NoRules(ds) == \A d \in ds : RulesOn(d) = {}

\* C17: whenever CalculatePointCost succeeds, its total is the sum of the
\* per-day costs of exactly the days d with checkIn <= d < checkOut; so with
\* no rules Monday -> Wednesday costs 2 and Friday -> Sunday costs 3.
C17_HalfOpenSum ==
    \A r \in Rooms : \A ci \in WeekDates : \A co \in WeekDates :
        LET calc == CalculatePointCost(Store, now, r, ci, co)
        IN  calc.err = "nil" =>
                /\ calc.cost = SumOfDays({d \in WeekDays : ci <= 24 * d /\ 24 * d < co})
                /\ (co = ci + 48 /\ NoRules({ci, ci + 24}) /\ Weekday(ci) = 1) => calc.cost = 2
                /\ (co = ci + 48 /\ NoRules({ci, ci + 24}) /\ Weekday(ci) = 5) => calc.cost = 3

\* A two-night stay whose first night is a regular day and whose second night
\* has a holiday rule of cost 3 costs 4; its first night alone costs 1, the
\* rule on the check-out day not counted; Monday -> Wednesday costs 2.
C17_Witness ==
    \E a \in WeekDates : \E m \in WeekDates :
        /\ RulesOn(a) = {} /\ ~IsWeekend(a)
        /\ \E r \in RulesOn(a + 24) : r.pointCost = HolidayCost
        /\ CalculatePointCost(Store, now, "r2", a, a + 48) = [err |-> "nil", cost |-> 4]
        /\ CalculatePointCost(Store, now, "r2", a, a + 24) = [err |-> "nil", cost |-> 1]
        /\ Weekday(m) = 1 /\ NoRules({m, m + 24})
        /\ CalculatePointCost(Store, now, "r2", m, m + 48) = [err |-> "nil", cost |-> 2]

AfterCheckOut == "check-in date cannot be after check-out date"
InThePast == "check-in date cannot be in the past"

\* C18: CalculatePointCost fails with the check-in-after-check-out error
\* exactly when the check-in date is later than the check-out date, and
\* otherwise with the 'in the past' error exactly when the check-in date is
\* earlier than yesterday's date (a check-in dated yesterday or today passes
\* at any time of day); both whatever the room and its bookings.
C18_DateValidation ==
    \A r \in Rooms \cup {"r9"} : \A ci \in WeekInstants : \A co \in WeekInstants :
        LET calc == CalculatePointCost(Store, now, r, ci, co)
        IN  /\ calc.err = AfterCheckOut <=> Midnight(ci) > Midnight(co)
            /\ Midnight(ci) <= Midnight(co) =>
                (calc.err = InThePast <=> Midnight(ci) < Midnight(now) - 24)

\* The calls that have inserted their booking and not yet debited it.
Undebited(b) == \E p \in Procs : calls[p].pc = "debit" /\ calls[p].id = b.id
AllReturned == \A p \in Procs : calls[p] = Idle

\* C14: with CreateBooking calls interleaved persistence call by persistence
\* call, a call that has passed the availability check inserts its booking
\* whatever other calls inserted since the check: no lock and no atomic
\* check-and-insert stands between the check and the insert.
C14_InsertAfterCheck ==
    \A p \in Procs :
        calls[p].pc \in {"debit", "log"} =>
            \E b \in bookings :
                /\ b.id = calls[p].id /\ b.room = calls[p].room
                /\ b.checkIn = calls[p].checkIn /\ b.checkOut = calls[p].checkOut
                /\ b.status = "confirmed"

\* Both calls have returned and left two non-cancelled overlapping bookings of
\* one room.
C14_Witness ==
    /\ AllReturned
    /\ \E b1 \in bookings : \E b2 \in bookings :
        /\ b1.id # b2.id /\ b1.room = b2.room
        /\ Active(b1) /\ Active(b2) /\ Overlap(b1, b2)
        /\ TxCopies(transactions, b1.user, -b1.pointCost, "booking_deduction", b1.id) = 1
        /\ TxCopies(transactions, b2.user, -b2.pointCost, "booking_deduction", b2.id) = 1

\* C15: with CreateBooking calls interleaved persistence call by persistence
\* call, no debit is lost: every user's pointBalance is the points granted
\* minus the pointCost of each of the user's bookings whose debit has been
\* applied, also when the balance goes negative.
C15_NoLostDebit ==
    \A u \in DOMAIN users :
        users[u].pointBalance
            = Granted(u) - SumPointCosts({b \in bookings : b.user = u /\ ~Undebited(b)})

\* Both calls of one user passed the balance check on the same snapshot and
\* both debited: the balance is negative, initial - cost1 - cost2.
C15_Witness ==
    /\ AllReturned
    /\ \E b1 \in bookings : \E b2 \in bookings :
        /\ b1.id # b2.id /\ b1.user = b2.user
        /\ b1.pointCost <= Granted(b1.user) /\ b2.pointCost <= Granted(b1.user)
        /\ users[b1.user].pointBalance < 0
        /\ users[b1.user].pointBalance = Granted(b1.user) - b1.pointCost - b2.pointCost

\* The requests of the booking path with failing calls.
FailRequests == {[ci |-> 24 * 0, co |-> co] : co \in FailDates}

\* C21 as stated: whenever CreateBooking has inserted the row and the debit
\* fails, CreateBooking returns the debit's error, the row is left cancelled,
\* no balance changes and no transaction is recorded.
C21_CompensationAlways ==
    \A q \in FailRequests : \A f \in {"balance", "balance+status"} :
        LET ok == CreateBookingOut(Store, now, "u1", "h1", "r1", q.ci, q.co, "none")
            c == CreateBookingOut(Store, now, "u1", "h1", "r1", q.ci, q.co, f)
        IN  ok.err = "nil" =>
                /\ c.err = DBError
                /\ Exists(c.st.bookings, nextId)
                /\ FindByID(c.st.bookings, nextId).status = "cancelled"
                /\ c.st.users = users
                /\ c.st.transactions = transactions

\* C21 (amended): the same when the compensating status write succeeds: the
\* row inserted is the one of the successful call but cancelled, no other row
\* changes, and the room is as free as before; when the status write fails as
\* well, the debit's error is still returned, no balance changes, no
\* transaction is recorded, and the row stays confirmed.
C21_CompensationBestEffort ==
    \A q \in FailRequests :
        LET ok == CreateBookingOut(Store, now, "u1", "h1", "r1", q.ci, q.co, "none")
            c == CreateBookingOut(Store, now, "u1", "h1", "r1", q.ci, q.co, "balance")
            c2 == CreateBookingOut(Store, now, "u1", "h1", "r1", q.ci, q.co, "balance+status")
            row == FindByID(ok.st.bookings, nextId)
        IN  ok.err = "nil" =>
                /\ c.err = DBError
                /\ c.st.bookings = bookings \cup {[row EXCEPT !.status = "cancelled"]}
                /\ \A ci \in ProbeInstants : \A co \in ProbeInstants :
                    CheckRoomAvailability(c.st.bookings, "r1", ci, co)
                        = CheckRoomAvailability(bookings, "r1", ci, co)
                /\ c.st.users = users
                /\ c.st.transactions = transactions
                /\ c2.err = DBError
                /\ c2.st.bookings = bookings \cup {row}
                /\ c2.st.users = users
                /\ c2.st.transactions = transactions

\* A booking that cost points was left cancelled with its owner's balance
\* untouched and nothing but the grants in the log, beside another booking, and
\* a request that would succeed now returns the error when its debit fails.
C21_Witness ==
    /\ \E b \in bookings : \E o \in bookings :
        /\ b.status = "cancelled" /\ b.pointCost > 0 /\ o.id # b.id
        /\ \A x \in BagToSet(transactions) : x.type = "annual_grant"
        /\ users[b.user].pointBalance = Granted(b.user)
    /\ \E q \in FailRequests :
        /\ CreateBookingOut(Store, now, "u1", "h1", "r1", q.ci, q.co, "none").err = "nil"
        /\ q.ci < q.co
        /\ CreateBookingOut(Store, now, "u1", "h1", "r1", q.ci, q.co, "balance").err = DBError

\* The sum of the amounts of a user's rows in a log.
LedgerSumOf(txs, u) == SumAmounts(txs, {r \in BagToSet(txs) : r.user = u})

\* What a handler's outcome o does to the ledger, from store st: every balance
\* moves by what the user's rows added to the log sum to, and at most one row
\* is added.
LedgerUnit(st, o) ==
    /\ \A u \in DOMAIN st.users :
        o.st.users[u].pointBalance - st.users[u].pointBalance
            = LedgerSumOf(o.st.transactions, u) - LedgerSumOf(st.transactions, u)
    /\ BagCardinality(o.st.transactions) - BagCardinality(st.transactions) \in {0, 1}
    /\ (o.err = "nil" /\ o.st.users # st.users) => o.st.transactions # st.transactions

\* C22: in CreateBooking, CancelBooking, UpdateBookingStatus and DeleteBooking,
\* whichever persistence call fails (the transaction append included), every
\* change of a user's pointBalance comes with exactly one PointTransaction of
\* the same signed amount, and no call returns success with a balance changed
\* and no transaction recorded.
C22_LedgerUnit ==
    /\ \A q \in FailRequests : \A f \in CreateFailures :
        LedgerUnit(Store, CreateBookingOut(Store, now, "u1", "h1", "r1", q.ci, q.co, f))
    /\ \A b \in bookings :
        /\ \A u \in UserIds : \A f \in CancelFailures :
            LedgerUnit(Store, CancelBookingOut(Store, now, b.id, u, f))
        /\ \A s \in Statuses : \A f \in StatusFailures :
            LedgerUnit(Store, UpdateBookingStatusOut(Store, b.id, s, f))
        /\ \A f \in DeleteFailures :
            LedgerUnit(Store, DeleteBookingOut(Store, b.id, f))

\* C26: every booking CreateBooking has stored has checkIn before checkOut and
\* pointCost >= 1, so that no request whose check-in and check-out are the
\* same calendar date has stored one (it would be stored with check-in 14:00
\* after check-out 12:00 and pointCost 0).
C26_AtLeastOneNight == \A b \in bookings : b.checkIn < b.checkOut /\ b.pointCost >= 1

\* A handler's outcome o that returned an error left bookings, balances and
\* the log of store st as they were.
FailedClean(st, o) ==
    o.err # "nil" =>
        /\ o.st.bookings = st.bookings
        /\ o.st.users = st.users
        /\ o.st.transactions = st.transactions

\* C28: whenever CancelBooking, UpdateBookingStatus or DeleteBooking returns
\* an error, also the error of a persistence call in the middle of the
\* operation, the booking's status and existence, every balance and the log
\* are as before the call.
C28_FailureAtomic ==
    \A b \in bookings :
        /\ \A u \in UserIds : \A f \in CancelFailures :
            FailedClean(Store, CancelBookingOut(Store, now, b.id, u, f))
        /\ \A s \in StatusInputs : \A f \in StatusFailures :
            FailedClean(Store, UpdateBookingStatusOut(Store, b.id, s, f))
        /\ \A f \in DeleteFailures :
            FailedClean(Store, DeleteBookingOut(Store, b.id, f))

\* What outcome o changed in the ledger of store st belongs to user owner: no
\* other balance moved and every row added is the owner's.
OnlyLedgerOf(st, o, owner) ==
    /\ DOMAIN o.st.users = DOMAIN st.users
    /\ \A u \in DOMAIN st.users : u # owner => o.st.users[u] = st.users[u]
    /\ \A x \in BagToSet(o.st.transactions (-) st.transactions) : x.user = owner

\* C29: when an admin who is not the owner cancels, reactivates or deletes a
\* booking, only the balance and the transactions of the booking's owner
\* change (by the booking's pointCost when the call refunds or debits again);
\* the admin's and every other user's balance stay as they are.
C29_LedgerOfOwner ==
    \A b \in bookings : \A a \in DOMAIN users :
        (users[a].role = RoleAdmin /\ a # b.user /\ b.user \in DOMAIN users) =>
            LET bal == users[b.user].pointBalance
                x == CancelBookingOut(Store, now, b.id, a, "none")
                d == DeleteBookingOut(Store, b.id, "none")
            IN  /\ \A f \in CancelFailures :
                    OnlyLedgerOf(Store, CancelBookingOut(Store, now, b.id, a, f), b.user)
                /\ x.err = "nil" => x.st.users[b.user].pointBalance = bal + b.pointCost
                /\ \A s \in StatusInputs :
                    /\ \A f \in StatusFailures :
                        OnlyLedgerOf(Store, UpdateBookingStatusOut(Store, b.id, s, f), b.user)
                    /\ LET r == UpdateBookingStatusOut(Store, b.id, s, "none")
                       IN  (r.err = "nil" /\ IsReactivation(b.status, s)) =>
                                r.st.users[b.user].pointBalance = bal - b.pointCost
                /\ \A f \in DeleteFailures :
                    OnlyLedgerOf(Store, DeleteBookingOut(Store, b.id, f), b.user)
                /\ (d.err = "nil" /\ DeleteRefunds(b.status)) =>
                        d.st.users[b.user].pointBalance = bal + b.pointCost

\* The admin has spent points on a booking of its own, and a confirmed booking
\* of another user, debited from that user, can be cancelled by the admin now.
C29_Witness ==
    \E a \in DOMAIN users : \E b \in bookings : \E c \in bookings :
        /\ users[a].role = RoleAdmin /\ b.user # a /\ c.user = a
        /\ c.pointCost > 0 /\ Active(c) /\ users[a].pointBalance = Granted(a) - c.pointCost
        /\ b.pointCost > 0 /\ b.status = "confirmed"
        /\ CancelBookingOut(Store, now, b.id, a, "none").err = "nil"
        /\ users[b.user].pointBalance = Granted(b.user) - b.pointCost

\* The rows of a room for a calendar day.
RowsOn(rows, roomID, date) == {a \in rows : a.room = roomID /\ Midnight(a.date) = Midnight(date)}
OneRowPerDay(rows) ==
    \A a1 \in rows : \A a2 \in rows :
        (a1.room = a2.room /\ Midnight(a1.date) = Midnight(a2.date)) => a1 = a2

\* C24: after any sequence of SetRoomAvailability calls run one at a time,
\* also when the lookup of a day's row returns a persistence error, each
\* (room, date) has at most one row, and a call that succeeds leaves, for
\* every day of [fromDate, toDate], exactly one row, holding the call's
\* available flag and allowed-user set.
C24_OneRowPerRoomDate ==
    /\ OneRowPerDay(roomAvailability)
    /\ \A r \in AvailRooms : \A fd \in AvailDates : \A td \in AvailDates :
       \A av \in BOOLEAN : \A us \in AllowedUserSets : \A f \in AvailFailures :
        LET o == SetRoomAvailabilityOut(Store, r, fd, td, av, us, f)
        IN  (fd <= td /\ o.err = "nil") =>
                /\ OneRowPerDay(o.st.roomAvailability)
                /\ \A d \in AvailDates :
                    (fd <= d /\ d <= td) =>
                        \E a \in o.st.roomAvailability :
                            /\ RowsOn(o.st.roomAvailability, r, d) = {a}
                            /\ a.available = av /\ a.userIDs = us

\* The date ranges an availability check is called with: the dates of a stay
\* cut to midnight, as CalculatePointCost passes them on, or set to the
\* check-in and check-out hours, as CreateBooking stores them.
StayRanges ==
    {[checkIn |-> 24 * d1 + h.i, checkOut |-> 24 * d2 + h.o] :
        d1 \in 0..(MaxDay + 1), d2 \in 0..(MaxDay + 1),
        h \in {[i |-> 0, o |-> 0], [i |-> CheckInHour, o |-> CheckOutHour]}}
\* The rows of the room on the days of [checkIn, checkOut).
RowsInStay(rows, roomID, checkIn, checkOut) ==
    {a \in rows : a.room = roomID /\ Midnight(checkIn) <= Midnight(a.date)
                                  /\ Midnight(a.date) < Midnight(checkOut)}

\* C25: checkRoomAvailabilityForUser(room, user, checkIn, checkOut) is true
\* exactly when the booking-overlap check passes and every calendar day of
\* [checkIn, checkOut) either has no row of the room or has a row with
\* available = true whose allowed-user set is empty or contains the user; the
\* rows of the check-out day and of days outside the range do not change the
\* result.
C25_FreeForUser ==
    \A r \in Rooms : \A u \in UserIds : \A q \in StayRanges :
        LET free == CheckRoomAvailabilityForUser(Store, r, u, q.checkIn, q.checkOut)
            inStay == RowsInStay(roomAvailability, r, q.checkIn, q.checkOut)
        IN  /\ free = (/\ CheckRoomAvailability(bookings, r, q.checkIn, q.checkOut)
                       /\ \A a \in inStay : a.available /\ (a.userIDs = {} \/ u \in a.userIDs))
            /\ free = CheckRoomAvailabilityForUser([Store EXCEPT !.roomAvailability = inStay],
                                                   r, u, q.checkIn, q.checkOut)

\* A stay of one night whose day is open to u1 only and whose check-out day is
\* closed: free for u1, not free for the admin, with no booking in the way.
C25_Witness ==
    \E q \in StayRanges : \E a \in roomAvailability : \E c \in roomAvailability :
        /\ q.checkOut = q.checkIn + 24
        /\ a.room = "r1" /\ a.date = q.checkIn /\ a.available /\ a.userIDs = {"u1"}
        /\ c.room = "r1" /\ c.date = q.checkOut /\ ~c.available
        /\ "u1" \in DOMAIN users
        /\ CheckRoomAvailability(bookings, "r1", q.checkIn, q.checkOut)
        /\ CheckRoomAvailabilityForUser(Store, "r1", "u1", q.checkIn, q.checkOut)
        /\ ~CheckRoomAvailabilityForUser(Store, "r1", "admin", q.checkIn, q.checkOut)

\* The rules of a calendar day.
RulesOfDay(rules, date) == {r \in rules : Midnight(r.date) = Midnight(date)}
OneRulePerDate(rules) ==
    \A r1 \in rules : \A r2 \in rules : Midnight(r1.date) = Midnight(r2.date) => r1 = r2

\* C23: after any number of SetSpecialDate and DeleteSpecialDate calls, run one
\* at a time or interleaved persistence call by persistence call, there is at
\* most one rule per calendar date, and a SetSpecialDate for date d leaves
\* exactly one rule for d, carrying the type, pointCost and name of the call.
C23_OneRulePerDate ==
    /\ OneRulePerDate(dateRules)
    /\ \A rule \in RuleInputs :
        LET o == SetSpecialDateOut(Store, rule, "none")
        IN  o.err = "nil" =>
                \E r \in o.st.dateRules :
                    /\ RulesOfDay(o.st.dateRules, rule.date) = {r}
                    /\ r.type = rule.type /\ r.pointCost = rule.pointCost
                    /\ r.name = rule.name

\* What the log holds for booking id: the refunds credited and the debits made.
CreditedFor(id) ==
    SumAmounts(transactions,
               {x \in BagToSet(transactions) :
                    x.type \in {"booking_refund", "booking_deletion_refund"} /\ x.ref = id})
DebitedFor(id) ==
    0 - SumAmounts(transactions,
                   {x \in BagToSet(transactions) : x.type = "booking_deduction" /\ x.ref = id})

\* C27: for any interleaving, persistence call by persistence call, of
\* CancelBooking, UpdateBookingStatus(b, cancelled) and DeleteBooking calls on
\* the same debited booking b, the amount credited to the owner for b is at
\* most b.pointCost, the amount debited for it: no user ever holds more than
\* was granted.
C27_RefundAtMostOnce ==
    /\ \A id \in BookingIds : CreditedFor(id) <= DebitedFor(id)
    /\ \A u \in DOMAIN users : users[u].pointBalance <= Granted(u)

\* What the rule lookups of one calculation can return from the stored rules:
\* one rule for each date that has any.  FindOne returns any rule of the day,
\* and the map keyed by date keeps any one of the rules sharing a date (the
\* range query sorts by date only).
Resolutions(rules) ==
    {S \in SUBSET rules :
        /\ OneRulePerDate(S)
        /\ \A r \in rules : RulesOfDay(S, r.date) # {}}

\* C30: for every room, date range and store, CalculatePointCost and
\* CalculatePointCostWithDetails return the same error or the same total, and
\* the total of CalculatePointCostWithDetails is the sum of the pointCost of its
\* per-day details, which are the days of [checkIn, checkOut) in ascending
\* order.
C30_CalculatorsAgree ==
    \A S1 \in Resolutions(dateRules) : \A S2 \in Resolutions(dateRules) :
    \A r \in Rooms \cup {"r9"} : \A ci \in WeekInstants : \A co \in WeekInstants :
        LET a == CalculatePointCost([Store EXCEPT !.dateRules = S1], now, r, ci, co)
            w == CalculatePointCostWithDetails([Store EXCEPT !.dateRules = S2], now, r, ci, co)
        IN  /\ a.err = w.err
            /\ a.cost = w.cost
            /\ w.cost = SumDetails(w.details)
            /\ w.err = "nil" =>
                /\ 24 * Len(w.details) = Midnight(co) - Midnight(ci)
                /\ \A i \in 1..Len(w.details) :
                    w.details[i].date = AddDays(Midnight(ci), i - 1)

====
